---- MODULE Spec2Model ----
(***************************************************************************)
(* A model of scripts/perf_test_hg.py: the benchmark driver that compares  *)
(* two revisions of the build tool over a sequence of repository           *)
(* revisions.  The version-control system and the build tool are external  *)
(* processes: what they print and how they exit is chosen                  *)
(* nondeterministically from bounded sets; everything the script does with *)
(* those answers is translated from the source.                            *)
(***************************************************************************)
EXTENDS Integers, Sequences, FiniteSets, TLC

\* ------------------------------------------------------------------ bounds
\* largest --revisions_to_go_back tried
MaxBack == 3
\* largest number of revisions of the project the repository history holds
MaxHist == 3
\* largest --iterations_per_diff tried
MaxIter == 2
\* longest build.log handed to the parse on its own
MaxLines == 2

\* ------------------------------------------------------- vocabulary of logs
\* The cache-outcome tags the build tool writes (opaque strings to the script).
Tags == {"DIR_HIT", "IGNORED", "LOCAL_KEY_UNCHANGED_HIT", "MISS"}

\* The build rules of the targets under test, in the order they finish.
RuleOrder == <<"//a:a", "//b:b">>
Rules == {RuleOrder[j] : j \in 1..Len(RuleOrder)}

\* Two fingerprints per rule: a rule whose inputs changed has a new rule key,
\* and the build tool then finds nothing cached under it.
KeyOf(rule, tag) ==
    IF rule = "//a:a" THEN (IF tag = "MISS" THEN "a1" ELSE "a0")
                      ELSE (IF tag = "MISS" THEN "b1" ELSE "b0")
DebugOf(key) == IF key \in {"a0", "b0"} THEN "srcs=0" ELSE "srcs=1"

EmptyMap == [x \in {} |-> x]

Min(a, b) == IF a < b THEN a ELSE b

\* A line of text is modelled by the pattern it matches and the groups the
\* pattern captures.
FinishedLine(rule, tag, key) ==
    [kind |-> "BuildRuleFinished", rule_name |-> rule,
     cache_result |-> tag, rule_key |-> key]
BuckLogRuleKeyLine(key, debug) ==
    [kind |-> "BuckLogRuleKey", rule_key |-> key, rule_key_debug |-> debug]
InfoRuleKeyLine(key, debug) ==
    [kind |-> "InfoRuleKey", rule_key |-> key, rule_key_debug |-> debug]

\* BUILD_RESULT_LOG_LINE.search(line)
BUILD_RESULT_LOG_LINE(line) == line.kind = "BuildRuleFinished"
\* RULEKEY_LINE.match(line)
RULEKEY_LINE(line) == line.kind = "InfoRuleKey"
\* BUCK_LOG_RULEKEY_LINE.match(line)
BUCK_LOG_RULEKEY_LINE(line) == line.kind = "BuckLogRuleKey"

\* ------------------------------------------------------------- BuildResult
\* BuildResult(time_delta, cache_results, rule_key_map).  The elapsed time is
\* not modelled; id stands for the identity of the object (the position in
\* the trace of the build that produced it, 0 for no object).
BuildResult(id, cache_results, rule_key_map) ==
    [id |-> id, cache_results |-> cache_results, rule_key_map |-> rule_key_map]
NoResult == BuildResult(0, EmptyMap, EmptyMap)

\* ------------------------------------------------- buck_build_target: parse
\* rule_debug_map: one entry per matching line, a later line replacing an
\* earlier one with the same rule key.
RECURSIVE RuleDebugMapFrom(_, _, _, _)
RuleDebugMapFrom(lines, j, usesBuckLog, map) ==
    IF j > Len(lines) THEN map
    ELSE LET line == lines[j]
             hit == IF usesBuckLog THEN BUCK_LOG_RULEKEY_LINE(line)
                                    ELSE RULEKEY_LINE(line)
         IN RuleDebugMapFrom(lines, j + 1, usesBuckLog,
              IF hit
              THEN [k \in DOMAIN map \cup {line.rule_key} |->
                      IF k = line.rule_key THEN line.rule_key_debug ELSE map[k]]
              ELSE map)

rule_debug_map_both_sources(out) ==
    IF out.java_utils_log_exists
    THEN RuleDebugMapFrom(out.java_utils_log, 1, TRUE,
            RuleDebugMapFrom(out.tmpFile, 1, FALSE, EmptyMap))
    ELSE RuleDebugMapFrom(out.tmpFile, 1, FALSE, EmptyMap)

\* The pattern and the file are chosen together by the existence of
\* buck-out/log/buck-0.log.
rule_debug_map(out) ==
    IF out.java_utils_log_exists
    THEN RuleDebugMapFrom(out.java_utils_log, 1, TRUE, EmptyMap)
    ELSE RuleDebugMapFrom(out.tmpFile, 1, FALSE, EmptyMap)

RECURSIVE ParseBuildLogFrom_dropping(_, _, _, _, _)
ParseBuildLogFrom_dropping(lines, j, debug, cache_results, rule_key_map) ==
    IF j > Len(lines)
    THEN [error |-> FALSE, cache_results |-> cache_results,
          rule_key_map |-> rule_key_map, rule |-> "", key |-> ""]
    ELSE LET line == lines[j] IN
         IF ~BUILD_RESULT_LOG_LINE(line) \/ line.rule_key \notin DOMAIN debug
         THEN ParseBuildLogFrom_dropping(lines, j + 1, debug, cache_results,
                                         rule_key_map)
         ELSE LET rec == [rule_name |-> line.rule_name,
                          rule_key |-> line.rule_key,
                          rule_key_debug |-> debug[line.rule_key]]
                  tag == line.cache_result
                  cr == [t \in DOMAIN cache_results \cup {tag} |->
                           IF t = tag
                           THEN (IF t \in DOMAIN cache_results
                                 THEN Append(cache_results[t], rec)
                                 ELSE <<rec>>)
                           ELSE cache_results[t]]
                  rkm == [r \in DOMAIN rule_key_map \cup {line.rule_name} |->
                            IF r = line.rule_name
                            THEN <<line.rule_key, debug[line.rule_key]>>
                            ELSE rule_key_map[r]]
              IN ParseBuildLogFrom_dropping(lines, j + 1, debug, cr, rkm)

RECURSIVE ParseBuildLogFrom_first_wins(_, _, _, _, _)
ParseBuildLogFrom_first_wins(lines, j, debug, cache_results, rule_key_map) ==
    IF j > Len(lines)
    THEN [error |-> FALSE, cache_results |-> cache_results,
          rule_key_map |-> rule_key_map, rule |-> "", key |-> ""]
    ELSE LET line == lines[j] IN
         IF ~BUILD_RESULT_LOG_LINE(line)
         THEN ParseBuildLogFrom_first_wins(lines, j + 1, debug, cache_results,
                                           rule_key_map)
         ELSE IF line.rule_key \notin DOMAIN debug
         THEN [error |-> TRUE, cache_results |-> cache_results,
               rule_key_map |-> rule_key_map,
               rule |-> line.rule_name, key |-> line.rule_key]
         ELSE LET rec == [rule_name |-> line.rule_name,
                          rule_key |-> line.rule_key,
                          rule_key_debug |-> debug[line.rule_key]]
                  tag == line.cache_result
                  cr == [t \in DOMAIN cache_results \cup {tag} |->
                           IF t = tag
                           THEN (IF t \in DOMAIN cache_results
                                 THEN Append(cache_results[t], rec)
                                 ELSE <<rec>>)
                           ELSE cache_results[t]]
                  rkm == [r \in DOMAIN rule_key_map \cup {line.rule_name} |->
                            IF r \in DOMAIN rule_key_map
                            THEN rule_key_map[r]
                            ELSE <<line.rule_key, debug[line.rule_key]>>]
              IN ParseBuildLogFrom_first_wins(lines, j + 1, debug, cr, rkm)

\* The loop over build.log: the parse state is (cache_results, rule_key_map),
\* or an error naming the rule and the rule key.
RECURSIVE ParseBuildLogFrom(_, _, _, _, _)
ParseBuildLogFrom(lines, j, debug, cache_results, rule_key_map) ==
    IF j > Len(lines)
    THEN [error |-> FALSE, cache_results |-> cache_results,
          rule_key_map |-> rule_key_map, rule |-> "", key |-> ""]
    ELSE LET line == lines[j] IN
         IF ~BUILD_RESULT_LOG_LINE(line)
         THEN ParseBuildLogFrom(lines, j + 1, debug, cache_results, rule_key_map)
         ELSE IF line.rule_key \notin DOMAIN debug
         THEN [error |-> TRUE, cache_results |-> cache_results,
               rule_key_map |-> rule_key_map,
               rule |-> line.rule_name, key |-> line.rule_key]
         ELSE LET rec == [rule_name |-> line.rule_name,
                          rule_key |-> line.rule_key,
                          rule_key_debug |-> debug[line.rule_key]]
                  tag == line.cache_result
                  cr == [t \in DOMAIN cache_results \cup {tag} |->
                           IF t = tag
                           THEN (IF t \in DOMAIN cache_results
                                 THEN Append(cache_results[t], rec)
                                 ELSE <<rec>>)
                           ELSE cache_results[t]]
                  rkm == [r \in DOMAIN rule_key_map \cup {line.rule_name} |->
                            IF r = line.rule_name
                            THEN <<line.rule_key, debug[line.rule_key]>>
                            ELSE rule_key_map[r]]
              IN ParseBuildLogFrom(lines, j + 1, debug, cr, rkm)

ParseBuildLog(out) ==
    ParseBuildLogFrom(out.build_log, 1, rule_debug_map(out), EmptyMap, EmptyMap)

\* ------------------------------------------------ what the build tool does
\* One run of `buck build`: its exit status, whether it left
\* buck-out/log/buck-0.log, the lines of that file, the lines of the captured
\* stdout and stderr (tmpFile), and the lines of buck-out/bin/build.log.
BuildOutput(exit, exists, java_utils_log, tmpFile, build_log) ==
    [exit |-> exit, java_utils_log_exists |-> exists,
     java_utils_log |-> java_utils_log, tmpFile |-> tmpFile,
     build_log_exists |-> TRUE, build_log |-> build_log]

\* The same run when it leaves no buck-out/bin/build.log.
WithoutBuildLog(out) ==
    [out EXCEPT !.build_log_exists = FALSE, !.build_log = <<>>]

SeqOf(rs) == SelectSeq(RuleOrder, LAMBDA r : r \in rs)

\* A build that finishes the rules rs, rule r with cache outcome tg[r]; every
\* finished rule but `missing` has its fingerprint described, in buck-0.log
\* when toFile, else on the console.
GoodOutput(rs, tg, missing, toFile) ==
    LET fin == SeqOf(rs)
        dbg == SeqOf(rs \ {missing})
        key(r) == KeyOf(r, tg[r])
        file == [j \in 1..Len(dbg) |->
                   BuckLogRuleKeyLine(key(dbg[j]), DebugOf(key(dbg[j])))]
        cons == [j \in 1..Len(dbg) |->
                   InfoRuleKeyLine(key(dbg[j]), DebugOf(key(dbg[j])))]
    IN BuildOutput(0, toFile,
                   IF toFile THEN file ELSE <<>>,
                   IF toFile THEN <<>> ELSE cons,
                   [j \in 1..Len(fin) |->
                      FinishedLine(fin[j], tg[fin[j]], key(fin[j]))])

FailedOutput == BuildOutput(1, FALSE, <<>>, <<>>, <<>>)
NoOutput == BuildOutput(0, FALSE, <<>>, <<>>, <<>>)

\* The runs of the build tool tried: a failed run; a run that exits 0 and
\* leaves no build.log; runs whose logs agree, with the fingerprints
\* described in buck-0.log or on the console; and runs whose logs disagree
\* about one finished rule.
BuildOutputs ==
    {FailedOutput, WithoutBuildLog(NoOutput)} \cup
    UNION {{GoodOutput(rs, tg, "-", toFile) :
                    tg \in [rs -> Tags], toFile \in BOOLEAN}
           \cup {GoodOutput(rs, [r \in rs |-> "DIR_HIT"], missing, toFile) :
                    missing \in rs, toFile \in BOOLEAN} :
           rs \in SUBSET Rules}

\* ------------------------------------------------------------------- state
VARIABLES
    args,               \* the parsed command line (PerfTestConfig)
    history,            \* how many revisions of the project the repository has
    pc,                 \* the statement the script is at
    step,               \* the statement of build_all_targets it is at
    revisions_to_test,  \* main: the revision list, oldest first
    i,                  \* main: the loop variable; run_tests_for_diff: test_index
    results_for_new,    \* main: the baseline; run_tests_for_diff: last_result
    result,             \* run_tests_for_diff: result
    cache_mode,         \* run_tests_for_diff: cache_mode
    attempt,            \* run_tests_for_diff: attempt
    root,               \* where the repository is: 0 its own path, k > 0 the
                        \* path <basename>_test_iteration_k
    tree,               \* the revision the working tree is at
    buckconfig,         \* the content of .buckconfig.local
    buckversion,        \* the content of .buckversion
    exc,                \* the exception in flight, "none" when there is none
    trace,              \* every process run, file renamed and line logged
    build_output,       \* the files of a finished build handed to the parse
                        \* on its own (ParseSpec); the script parses the
                        \* files of its builds inside buck_build_target
    environ,            \* os.environ: the environment the script was started in
    xrange_next         \* run_tests_for_diff: the value the iterator of
                        \* xrange(args.iterations_per_diff) gives next

vars == <<args, history, pc, step, revisions_to_test, i, results_for_new,
          result, cache_mode, attempt, root, tree, buckconfig, buckversion,
          exc, trace, build_output, environ, xrange_next>>

WarmupPcs == {"warmup_1", "warmup_2", "warmup_3", "warmup_4"}
LoopBuildPcs == {"rtd_build_old", "rtd_build_new"}
BuildPcs == WarmupPcs \cup LoopBuildPcs \cup {"rtd_check_build", "rtd_noop_build"}

\* The statements inside the try block of run_tests_for_diff.
TryPcs == {"rtd_check_build", "rtd_check", "rtd_checkout", "rtd_loop",
           "rtd_build_old", "rtd_build_new", "rtd_noop_build", "rtd_noop_check"}

NoConfig == [mode_dir |-> FALSE, dir |-> "", dir_mode |-> ""]

\* -------------------------------------------------------------- hg, paths
\* `hg log --limit n -T '{node}\n' <project>`: the newest n revisions that
\* touch the project, newest first.  Revision k is the k-th oldest.
HgLog(n) == [j \in 1..Min(history, n) |-> history - j + 1]

\* list(reversed(lines))
Reversed(s) == [j \in 1..Len(s) |-> s[Len(s) + 1 - j]]

\* get_revisions(args)
get_revisions == Reversed(HgLog(args.revisions_to_go_back + 1))

\* revisions_to_test[k] of the source, whose lists count from 0.
RevisionAt(k) == revisions_to_test[k + 1]
HasIndex(k) == k >= 0 /\ k < Len(revisions_to_test)

\* xrange(1, args.revisions_to_go_back) still has the value k to give.
InXRange(k) == k >= 1 /\ k < args.revisions_to_go_back

\* The working directory of the statement at p: main works under
\* args.repo_under_test (0), run_tests_for_diff under cwd_root (test_index).
CwdOf_original(p) == 0
CwdOf(p) == IF p \in TryPcs THEN i ELSE 0

\* A child process can only succeed when its working directory exists.
MayExit(ok, p) == ok => CwdOf(p) = root

\* ------------------------------------------------------------- call sites
Call(side, mode, run_clean, dir_cache_only, log_as_perftest) ==
    [perftest_side |-> side, cache_mode |-> mode, run_clean |-> run_clean,
     dir_cache_only |-> dir_cache_only, log_as_perftest |-> log_as_perftest]

warmup_call_dir_only_first(p) ==
    CASE p = "warmup_1" -> Call("old", "readwrite", TRUE, TRUE, FALSE)
      [] p = "warmup_2" -> Call("old", "readwrite", TRUE, FALSE, FALSE)
      [] p = "warmup_3" -> Call("new", "readwrite", TRUE, TRUE, FALSE)
      [] OTHER          -> Call("new", "readwrite", TRUE, FALSE, FALSE)

\* main: the four warm-up builds
warmup_call(p) ==
    CASE p = "warmup_1" -> Call("old", "readwrite", TRUE, FALSE, FALSE)
      [] p = "warmup_2" -> Call("old", "readwrite", TRUE, TRUE, FALSE)
      [] p = "warmup_3" -> Call("new", "readwrite", TRUE, FALSE, FALSE)
      [] OTHER          -> Call("new", "readwrite", TRUE, TRUE, FALSE)

\* run_tests_for_diff: build_all_targets(args, cwd, 'new', 'readonly')
check_build_call_unclean == Call("new", "readonly", FALSE, TRUE, TRUE)
check_build_call == Call("new", "readonly", TRUE, TRUE, TRUE)

\* run_tests_for_diff: the two builds of one loop iteration
loop_build_call(p, mode) ==
    IF p = "rtd_build_old" THEN Call("old", mode, TRUE, TRUE, TRUE)
                           ELSE Call("new", mode, TRUE, TRUE, TRUE)

\* run_tests_for_diff: build_all_targets(args, cwd, 'new', cache_mode,
\* run_clean=False)
noop_build_call_clean(mode) == Call("new", mode, TRUE, TRUE, TRUE)
noop_build_call(mode) == Call("new", mode, FALSE, TRUE, TRUE)

\* cache_mode, a local of run_tests_for_diff, before the loop has bound it
unbound_local_readwrite == "readwrite"
unbound_local == "unset"

CallAt(p) ==
    CASE p \in WarmupPcs        -> warmup_call(p)
      [] p = "rtd_check_build"  -> check_build_call
      [] p \in LoopBuildPcs     -> loop_build_call(p, cache_mode)
      [] OTHER                  -> noop_build_call(cache_mode)

\* cache_mode of the loop iteration `attempt` of n
loop_cache_mode_first(a, n) == IF a = 0 THEN "readwrite" ELSE "readonly"
loop_cache_mode(a, n) == IF a = n - 1 THEN "readwrite" ELSE "readonly"

\* ----------------------------------------------------------- control flow
\* Where an exception raised at p goes: the finally clause of
\* run_tests_for_diff when p is inside its try block, else out of main.
handler_without_finally(p) == "done"
handler_retrying(p) == IF p \in TryPcs THEN p ELSE "done"
handler(p) == IF p \in TryPcs THEN "rtd_finally" ELSE "done"

after_build_single_iteration(p) ==
    CASE p = "warmup_1"        -> "warmup_2"
      [] p = "warmup_2"        -> "warmup_3"
      [] p = "warmup_3"        -> "warmup_4"
      [] p = "warmup_4"        -> "main_loop"
      [] p = "rtd_check_build" -> "rtd_check"
      [] p = "rtd_build_old"   -> "rtd_build_new"
      [] p = "rtd_build_new"   -> "rtd_noop_build"
      [] OTHER                 -> "rtd_noop_check"

\* The statement after the build at p has returned.
after_build(p) ==
    CASE p = "warmup_1"        -> "warmup_2"
      [] p = "warmup_2"        -> "warmup_3"
      [] p = "warmup_3"        -> "warmup_4"
      [] p = "warmup_4"        -> "main_loop"
      [] p = "rtd_check_build" -> "rtd_check"
      [] p = "rtd_build_old"   -> "rtd_build_new"
      [] p = "rtd_build_new"   -> "rtd_loop"
      [] OTHER                 -> "rtd_noop_check"

\* The call sites whose return value is assigned: results_for_new in main,
\* result in run_tests_for_diff.
keeps_baseline_third(p) == p = "warmup_3"
keeps_baseline(p) == p = "warmup_4"
keeps_result(p) == p \in {"rtd_check_build", "rtd_noop_build"}

first_step(p) == IF p \in BuildPcs THEN "set_perftest_side" ELSE "-"

\* The exit status of the interpreter once main has ended.
exit_code == IF exc = "none" THEN 0 ELSE 1

Goto(p) == pc' = p /\ step' = first_step(p)

Raise(p, e, entries) ==
    /\ pc' = handler(p)
    /\ step' = "-"
    /\ exc' = e
    /\ trace' = trace \o entries \o <<[op |-> "raise", exc |-> e]>>

\* The environments the script is started in, os.environ: one without the
\* variables buck_build_target sets, one where the caller of the script has
\* set them.  The script never writes to os.environ, only to a copy.
NoEnviron == [BUCK_REPOSITORY_DIRTY |-> "", perftest_side |-> ""]
Environs ==
    {NoEnviron, [BUCK_REPOSITORY_DIRTY |-> "1", perftest_side |-> "new"]}

\* -------------------------------------------------------------------- Init
Init ==
    /\ args \in [revisions_to_go_back : 1..MaxBack,
                 iterations_per_diff : 0..MaxIter]
    /\ history \in 0..MaxHist
    /\ pc = "main_clean"
    /\ step = "-"
    /\ revisions_to_test = <<>>
    /\ i = 0
    /\ results_for_new = NoResult
    /\ result = NoResult
    /\ cache_mode = "unset"
    /\ attempt = 0
    /\ root = 0
    /\ tree = history
    /\ buckconfig = NoConfig
    /\ buckversion = ""
    /\ exc = "none"
    /\ trace = <<>>
    /\ build_output = NoOutput
    /\ environ \in Environs
    /\ xrange_next = 0

LogLine(msg) == [op |-> "log", msg |-> msg]

\* -------------------------------------------------------------------- main
\* clean(args.repo_under_test)
main_clean ==
    /\ pc = "main_clean"
    /\ \E ok \in BOOLEAN :
         /\ MayExit(ok, pc)
         /\ LET run == [op |-> "hg_purge", cwd |-> 0, root |-> root, ok |-> ok]
            IN IF ok
               THEN /\ Goto("main_get_revisions")
                    /\ trace' = Append(trace, run)
                    /\ exc' = exc
               ELSE Raise(pc, "CalledProcessError", <<run>>)
    /\ UNCHANGED <<build_output, environ, xrange_next, args, history, revisions_to_test, i, results_for_new, result,
                   cache_mode, attempt, root, tree, buckconfig, buckversion>>

\* revisions_to_test = get_revisions(args)
main_get_revisions ==
    /\ pc = "main_get_revisions"
    /\ \E ok \in BOOLEAN :
         /\ MayExit(ok, pc)
         /\ LET run == [op |-> "hg_log", cwd |-> 0, root |-> root, ok |-> ok]
            IN IF ok
               THEN /\ Goto("main_checkout")
                    /\ revisions_to_test' = get_revisions
                    /\ trace' = Append(trace, run)
                    /\ exc' = exc
               ELSE /\ Raise(pc, "CalledProcessError", <<run>>)
                    /\ revisions_to_test' = revisions_to_test
    /\ UNCHANGED <<build_output, environ, xrange_next, args, history, i, results_for_new, result, cache_mode,
                   attempt, root, tree, buckconfig, buckversion>>

\* reset(revision, cwd), lines 107-110, is called from nowhere in the script:
\* no step of main() or of run_tests_for_diff reaches it, so it is no disjunct
\* of Next, and in a run of the script the working tree changes only through
\* checkout(), lines 140-144.  It is modelled below, under ResetSpec, for a
\* caller that imports the module.
\*
\* checkout(revisions_to_test[0], args.repo_under_test)
main_checkout ==
    /\ pc = "main_checkout"
    /\ IF ~HasIndex(0)
       THEN /\ Raise(pc, "IndexError", <<>>)
            /\ tree' = tree
       ELSE \E ok \in BOOLEAN :
              /\ MayExit(ok, pc)
              /\ LET run == [op |-> "hg_update", revision |-> RevisionAt(0),
                             at |-> pc, cwd |-> 0, root |-> root, ok |-> ok]
                 IN IF ok
                    THEN /\ Goto("warmup_1")
                         /\ tree' = RevisionAt(0)
                         /\ trace' = Append(trace, run)
                         /\ exc' = exc
                    ELSE /\ Raise(pc, "CalledProcessError", <<run>>)
                         /\ tree' = tree
    /\ UNCHANGED <<build_output, environ, xrange_next, args, history, revisions_to_test, i, results_for_new, result,
                   cache_mode, attempt, root, buckconfig, buckversion>>

\* for i in xrange(1, args.revisions_to_go_back): the next value, or the end
\* of main.
main_loop ==
    /\ pc = "main_loop"
    /\ IF InXRange(i + 1)
       THEN /\ i' = i + 1
            /\ Goto("rtd_enter")
       ELSE /\ i' = i
            /\ Goto("done")
    /\ UNCHANGED <<build_output, environ, xrange_next, args, history, revisions_to_test, results_for_new, result,
                   cache_mode, attempt, root, tree, buckconfig, buckversion,
                   exc, trace>>

\* ------------------------------------------------------- build_all_targets
buckconfig_text_shared_dir(call) ==
    [mode_dir |-> call.dir_cache_only, dir |-> "buck-cache-old",
     dir_mode |-> call.cache_mode]

\* What set_perftest_side writes to .buckconfig.local: `mode = dir` or
\* nothing, dir = buck-cache-<side>, dir_mode = <cache_mode>.
buckconfig_text(call) ==
    [mode_dir |-> call.dir_cache_only,
     dir |-> IF call.perftest_side = "old" THEN "buck-cache-old"
                                           ELSE "buck-cache-new",
     dir_mode |-> call.cache_mode]

\* What set_perftest_side writes to .buckversion.
buckversion_text(side) ==
    IF side = "old" THEN "old_buck_revision" ELSE "new_buck_revision"

\* set_perftest_side(args, cwd, perftest_side, cache_mode, dir_cache_only)
set_perftest_side ==
    /\ pc \in BuildPcs
    /\ step = "set_perftest_side"
    /\ CallAt(pc).cache_mode # "unset"
    /\ LET call == CallAt(pc) IN
         /\ buckconfig' = buckconfig_text(call)
         /\ buckversion' = buckversion_text(call.perftest_side)
         /\ step' = IF call.run_clean THEN "buck_clean" ELSE "buck_build_target"
         /\ trace' = Append(trace,
                [op |-> "set_perftest_side", at |-> pc,
                 perftest_side |-> call.perftest_side,
                 cache_mode |-> call.cache_mode,
                 dir_cache_only |-> call.dir_cache_only,
                 cwd |-> CwdOf(pc), root |-> root])
    /\ UNCHANGED <<build_output, environ, xrange_next, args, history, pc, revisions_to_test, i, results_for_new,
                   result, cache_mode, attempt, root, tree, exc>>

\* The arguments of the call name cache_mode before the loop has bound it.
unbound_cache_mode ==
    /\ pc \in BuildPcs
    /\ step = "set_perftest_side"
    /\ CallAt(pc).cache_mode = "unset"
    /\ Raise(pc, "UnboundLocalError", <<>>)
    /\ UNCHANGED <<build_output, environ, xrange_next, args, history, revisions_to_test, i, results_for_new, result,
                   cache_mode, attempt, root, tree, buckconfig, buckversion>>

\* buck_clean(args, cwd)
buck_clean ==
    /\ pc \in BuildPcs
    /\ step = "buck_clean"
    /\ \E ok \in BOOLEAN :
         /\ MayExit(ok, pc)
         /\ LET run == [op |-> "buck_clean", at |-> pc, cwd |-> CwdOf(pc),
                        root |-> root, ok |-> ok]
            IN IF ok
               THEN /\ pc' = pc
                    /\ step' = "buck_build_target"
                    /\ trace' = Append(trace, run)
                    /\ exc' = exc
               ELSE Raise(pc, "CalledProcessError", <<run>>)
    /\ UNCHANGED <<build_output, environ, xrange_next, args, history, revisions_to_test, i, results_for_new, result,
                   cache_mode, attempt, root, tree, buckconfig, buckversion>>

\* The environment buck_build_target gives the build tool: a copy of the
\* script's own, BUCK_REPOSITORY_DIRTY set to 0, and the side label of
\* BUCK_EXTRA_JAVA_ARGS set only under log_as_perftest.
build_env_always_tagged(call, env) ==
    [env EXCEPT !.BUCK_REPOSITORY_DIRTY = "0",
                !.perftest_side = call.perftest_side]
build_env(call, env) ==
    [env EXCEPT !.BUCK_REPOSITORY_DIRTY = "0",
                !.perftest_side = IF call.log_as_perftest
                                  THEN call.perftest_side ELSE @]

\* buck_build_target(args, cwd, targets, perftest_side, log_as_perftest)
buck_build_target ==
    /\ pc \in BuildPcs
    /\ step = "buck_build_target"
    /\ \E out \in BuildOutputs :
         /\ MayExit(out.exit = 0, pc)
         /\ LET call == CallAt(pc)
                run == [op |-> "buck_build", at |-> pc, index |-> i,
                        perftest_side |-> call.perftest_side,
                        env |-> build_env(call, environ),
                        buckconfig |-> buckconfig, buckversion |-> buckversion,
                        cwd |-> CwdOf(pc), root |-> root, exit |-> out.exit]
                parsed == ParseBuildLog(out)
                built == BuildResult(Len(trace) + 1, parsed.cache_results,
                                     parsed.rule_key_map)
            IN IF out.exit # 0
               THEN /\ Raise(pc, "CalledProcessError",
                             <<run, LogLine("Buck build failed")>>)
                    /\ UNCHANGED <<results_for_new, result>>
               ELSE IF ~out.build_log_exists
               THEN /\ Raise(pc, "IOError", <<run>>)
                    /\ UNCHANGED <<results_for_new, result>>
               ELSE IF parsed.error
               THEN /\ Raise(pc, "Exception: build.log entry not in output", <<run>>)
                    /\ UNCHANGED <<results_for_new, result>>
               ELSE /\ Goto(after_build(pc))
                    /\ trace' = trace \o <<run, LogLine("Test Build Finished!")>>
                    /\ exc' = exc
                    /\ results_for_new' =
                         IF keeps_baseline(pc) THEN built ELSE results_for_new
                    /\ result' = IF keeps_result(pc) THEN built ELSE result
    /\ UNCHANGED <<build_output, environ, xrange_next, args, history,
                   revisions_to_test, i, cache_mode, attempt, root, tree,
                   buckconfig, buckversion>>

\* ------------------------------------------------------ run_tests_for_diff
\* The entry of run_tests_for_diff up to the try statement: the banner, the
\* names, and os.rename(args.repo_under_test, cwd_root).  The rename fails
\* when the repository is not at its own path or when cwd_root is in the way.
rtd_enter ==
    /\ pc = "rtd_enter"
    /\ IF ~HasIndex(i)
       THEN /\ Raise(pc, "IndexError", <<>>)
            /\ UNCHANGED <<root, result, cache_mode, attempt, xrange_next>>
       ELSE \E ok \in BOOLEAN :
              /\ ok => root = 0
              /\ LET banner == [op |-> "log",
                                msg |-> "=== Running tests at revision",
                                index |-> i, revision |-> RevisionAt(i)]
                     move == [op |-> "rename", from |-> 0, to |-> i,
                              index |-> i, ok |-> ok]
                 IN IF ok
                    THEN /\ Goto("rtd_check_build")
                         /\ root' = i
                         /\ trace' = trace \o <<banner, move>>
                         /\ exc' = exc
                         /\ result' = NoResult
                         /\ cache_mode' = unbound_local
                         /\ attempt' = 0
                         /\ xrange_next' = 0
                    ELSE /\ Raise(pc, "OSError", <<banner, move>>)
                         /\ UNCHANGED <<root, result, cache_mode, attempt,
                                        xrange_next>>
    /\ UNCHANGED <<build_output, environ, args, history, revisions_to_test, i, results_for_new, tree,
                   buckconfig, buckversion>>

\* suspect_keys: the keys of cache_results not in ['DIR_HIT', 'IGNORED']
suspect_keys_miss_only(res) == DOMAIN res.cache_results \cap {"MISS"}
suspect_keys(res) == DOMAIN res.cache_results \ {"DIR_HIT", "IGNORED"}

\* result.cache_results['MISS'] of a defaultdict(list): the value read ...
missed_rules(res) ==
    IF "MISS" \in DOMAIN res.cache_results THEN res.cache_results["MISS"]
                                           ELSE <<>>

\* ... and the result after the read, which inserts a missing key.
with_miss_bucket(res) ==
    [res EXCEPT !.cache_results =
        [t \in DOMAIN res.cache_results \cup {"MISS"} |->
            IF t \in DOMAIN res.cache_results THEN res.cache_results[t]
                                              ELSE <<>>]]

\* The loop over the missed rules: what it logs, and whether the look-up of
\* the rule in last_result.rule_key_map raised KeyError.
RECURSIVE log_missed(_, _, _, _, _)
log_missed(rules, j, res, last, logged) ==
    IF j > Len(rules) THEN [logged |-> logged, key_error |-> FALSE]
    ELSE LET rule_name == rules[j].rule_name IN
         IF rule_name \notin DOMAIN last.rule_key_map
         THEN [logged |-> logged, key_error |-> TRUE]
         ELSE log_missed(rules, j + 1, res, last, logged \o
                <<[op |-> "log", msg |-> "Rule missed", rule |-> rule_name],
                  [op |-> "log", msg |-> "Old Rule Key", rule |-> rule_name,
                   key |-> last.rule_key_map[rule_name][1],
                   debug |-> last.rule_key_map[rule_name][2]],
                  [op |-> "log", msg |-> "New Rule Key", rule |-> rule_name,
                   key |-> res.rule_key_map[rule_name][1],
                   debug |-> res.rule_key_map[rule_name][2]]>>)

\* The check of the build made right after the rename.
rtd_check ==
    /\ pc = "rtd_check"
    /\ IF suspect_keys(result) # {}
       THEN LET told == log_missed(missed_rules(result), 1, result,
                                   results_for_new, <<>>)
                head == <<LogLine("unable to reuse the cache from a previous run")>>
            IN /\ result' = with_miss_bucket(result)
               /\ IF told.key_error
                  THEN Raise(pc, "KeyError", head \o told.logged)
                  ELSE Raise(pc, "Exception: Failed to reuse cache across directories!!!",
                             head \o told.logged)
       ELSE /\ Goto("rtd_checkout")
            /\ UNCHANGED <<exc, trace, result>>
    /\ UNCHANGED <<build_output, environ, xrange_next, args, history,
                   revisions_to_test, i, results_for_new, cache_mode, attempt,
                   root, tree, buckconfig, buckversion>>

\* checkout(revisions_to_test[test_index], cwd_root)
rtd_checkout ==
    /\ pc = "rtd_checkout"
    /\ \E ok \in BOOLEAN :
         /\ MayExit(ok, pc)
         /\ LET run == [op |-> "hg_update", revision |-> RevisionAt(i),
                        at |-> pc, cwd |-> i, root |-> root, ok |-> ok]
            IN IF ok
               THEN /\ Goto("rtd_loop")
                    /\ tree' = RevisionAt(i)
                    /\ trace' = Append(trace, run)
                    /\ exc' = exc
               ELSE /\ Raise(pc, "CalledProcessError", <<run>>)
                    /\ tree' = tree
    /\ UNCHANGED <<build_output, environ, xrange_next, args, history, revisions_to_test, i, results_for_new, result,
                   cache_mode, attempt, root, buckconfig, buckversion>>

\* for attempt in xrange(args.iterations_per_diff): the next iteration with
\* its cache_mode, or the statement after the loop.
rtd_loop ==
    /\ pc = "rtd_loop"
    /\ IF xrange_next < args.iterations_per_diff
       THEN /\ attempt' = xrange_next
            /\ xrange_next' = xrange_next + 1
            /\ cache_mode' = loop_cache_mode(attempt', args.iterations_per_diff)
            /\ Goto("rtd_build_old")
       ELSE /\ UNCHANGED <<attempt, xrange_next, cache_mode>>
            /\ Goto("rtd_noop_build")
    /\ UNCHANGED <<build_output, environ, args, history, revisions_to_test, i,
                   results_for_new, result, root, tree, buckconfig,
                   buckversion, exc, trace>>

\* The condition under which the no-op build is rejected.
noop_fails_without_count(res) ==
    "LOCAL_KEY_UNCHANGED_HIT" \notin DOMAIN res.cache_results
noop_fails(res) ==
    \/ Cardinality(DOMAIN res.cache_results) # 1
    \/ "LOCAL_KEY_UNCHANGED_HIT" \notin DOMAIN res.cache_results

\* result.cache_results.pop('DIR_HIT', None)
pop_dir_hit(res) ==
    [res EXCEPT !.cache_results =
        [t \in DOMAIN res.cache_results \ {"DIR_HIT"} |-> res.cache_results[t]]]

\* The check of the no-op build.
rtd_noop_check ==
    /\ pc = "rtd_noop_check"
    /\ IF noop_fails(result)
       THEN /\ result' = pop_dir_hit(result)
            /\ Raise(pc, "Exception: noop build did not hit all of it's keys", <<>>)
       ELSE /\ result' = result
            /\ Goto("rtd_finally")
            /\ UNCHANGED <<exc, trace>>
    /\ UNCHANGED <<build_output, environ, xrange_next, args, history, revisions_to_test, i, results_for_new,
                   cache_mode, attempt, root, tree, buckconfig, buckversion>>

\* The finally clause, os.rename(cwd_root, args.repo_under_test), and then
\* either `return result` into main's results_for_new or the exception going
\* on out of main.  When the rename fails, its OSError takes the place of
\* the exception in flight and the repository stays where it is.
rtd_finally ==
    /\ pc = "rtd_finally"
    /\ \E ok \in BOOLEAN :
         /\ ok => root = i
         /\ LET move == [op |-> "rename", from |-> i, to |-> 0,
                         index |-> i, ok |-> ok]
            IN IF ~ok
               THEN /\ Raise(pc, "OSError", <<move>>)
                    /\ UNCHANGED <<root, results_for_new>>
               ELSE /\ root' = 0
                    /\ trace' = Append(trace, move)
                    /\ exc' = exc
                    /\ IF exc = "none"
                       THEN /\ results_for_new' = result
                            /\ Goto("main_loop")
                       ELSE /\ results_for_new' = results_for_new
                            /\ Goto("done")
    /\ UNCHANGED <<build_output, environ, xrange_next, args, history,
                   revisions_to_test, i, result, cache_mode, attempt, tree,
                   buckconfig, buckversion>>

\* -------------------------------------------------------------------- Next
Next ==
    \/ main_clean
    \/ main_get_revisions
    \/ main_checkout
    \/ main_loop
    \/ set_perftest_side
    \/ unbound_cache_mode
    \/ buck_clean
    \/ buck_build_target
    \/ rtd_enter
    \/ rtd_check
    \/ rtd_checkout
    \/ rtd_loop
    \/ rtd_noop_check
    \/ rtd_finally

Spec == Init /\ [][Next]_vars

\* ================================================================ claims
\* Reading the trace.
Steps == DOMAIN trace
IsOp(j, kind) == trace[j].op = kind
IsRaise(j) == IsOp(j, "raise")
IsBuildAt(j, p) == IsOp(j, "buck_build") /\ trace[j].at = p
MovedAway(j) == IsOp(j, "rename") /\ trace[j].to # 0 /\ trace[j].ok
MovedBack(j) == IsOp(j, "rename") /\ trace[j].to = 0 /\ trace[j].ok
\* The rename back was called at j, whether or not it succeeded.
TriedBack(j) == IsOp(j, "rename") /\ trace[j].to = 0
Buckets(res) == DOMAIN res.cache_results
\* The build that produced a BuildResult.
MadeAt(res, p) == res.id # 0 /\ IsBuildAt(res.id, p)
InDriver == pc \in TryPcs \cup {"rtd_enter", "rtd_finally"}
CrossDirErrors == {"KeyError",
                   "Exception: Failed to reuse cache across directories!!!"}
NoopError == "Exception: noop build did not hit all of it's keys"
RaisedAfter(j, errors) ==
    \E k \in Steps : k > j /\ IsRaise(k) /\ trace[k].exc \in errors

\* C1 (as claimed): once run_tests_for_diff has renamed the repository to
\* its per-iteration name, every way out of it renames it back: outside the
\* try block and its finally clause the repository is at its own path, and
\* every rename away is followed by the rename back of the same index.
C1_RestoredOnEveryExit ==
    pc \notin TryPcs \cup {"rtd_finally"} =>
        /\ root = 0
        /\ \A j \in Steps : MovedAway(j) =>
              \E k \in Steps : /\ k > j
                               /\ MovedBack(k)
                               /\ trace[k].from = trace[j].to

\* C1 (amended): every way out of run_tests_for_diff after the rename away
\* calls the rename back of the same index; the repository is at its own
\* path afterwards exactly when that rename succeeded, and when it failed
\* the script has ended with the OSError of the rename.
C1_RestoreAttemptedOnEveryExit ==
    pc \notin TryPcs \cup {"rtd_finally"} =>
        /\ \A j \in Steps : MovedAway(j) =>
              \E k \in Steps : /\ k > j
                               /\ TriedBack(k)
                               /\ trace[k].from = trace[j].to
        /\ root = 0 <=> ~\E k \in Steps : TriedBack(k) /\ ~trace[k].ok
        /\ root # 0 =>
              /\ pc = "done"
              /\ exc = "OSError"
              /\ TriedBack(Len(trace) - 1) /\ ~trace[Len(trace) - 1].ok
              /\ trace[Len(trace) - 1].from = root

\* C1 witness: the script has ended on a failed child process after the
\* repository had been moved away.
C1_Witness ==
    /\ pc = "done"
    /\ exc = "CalledProcessError"
    /\ \E j \in Steps : MovedAway(j)

\* C2: the build made right after the rename lets run_tests_for_diff go on,
\* with no error from the check, exactly when its buckets are among DIR_HIT
\* and IGNORED; with any other bucket the check raises, and no checkout,
\* clean or build follows in that run.
C2_CrossDirectoryCheck ==
    (MadeAt(result, "rtd_check_build") /\ pc # "rtd_check") =>
        IF Buckets(result) \subseteq {"DIR_HIT", "IGNORED"}
        THEN ~RaisedAfter(result.id, CrossDirErrors)
        ELSE /\ RaisedAfter(result.id, CrossDirErrors)
             /\ pc \in {"rtd_finally", "done"}
             /\ \A k \in Steps : k > result.id =>
                   trace[k].op \notin {"hg_update", "buck_build", "buck_clean",
                                       "set_perftest_side"}

\* C2 witness: the run has ended on a check build that had a bucket other
\* than DIR_HIT, IGNORED and MISS, and no missed rule.
C2_Witness ==
    /\ pc = "done"
    /\ MadeAt(result, "rtd_check_build")
    /\ "LOCAL_KEY_UNCHANGED_HIT" \in Buckets(result)
    /\ missed_rules(result) = <<>>

\* C3 (as claimed): a no-op build whose buckets, DIR_HIT set aside, are
\* exactly LOCAL_KEY_UNCHANGED_HIT passes the no-op check.
C3_NoopPassesWithDirHit ==
    (/\ MadeAt(result, "rtd_noop_build")
     /\ pc # "rtd_noop_check"
     /\ Buckets(result) \ {"DIR_HIT"} = {"LOCAL_KEY_UNCHANGED_HIT"}) =>
        ~RaisedAfter(result.id, {NoopError})

\* C4: a no-op build with a bucket other than LOCAL_KEY_UNCHANGED_HIT and
\* DIR_HIT, or without the LOCAL_KEY_UNCHANGED_HIT bucket, always ends in the
\* no-op error, and no such result ever becomes the baseline.
BadNoop(res) ==
    \/ Buckets(res) \ {"LOCAL_KEY_UNCHANGED_HIT", "DIR_HIT"} # {}
    \/ "LOCAL_KEY_UNCHANGED_HIT" \notin Buckets(res)
C4_NoopFailure ==
    /\ (MadeAt(result, "rtd_noop_build") /\ pc # "rtd_noop_check"
        /\ BadNoop(result)) =>
          /\ RaisedAfter(result.id, {NoopError})
          /\ pc \in {"rtd_finally", "done"}
          /\ results_for_new.id # result.id
    /\ MadeAt(results_for_new, "rtd_noop_build") => ~BadNoop(results_for_new)

\* C4 witness: the run has ended on a no-op build that had both the
\* LOCAL_KEY_UNCHANGED_HIT and the MISS bucket.
C4_Witness ==
    /\ pc = "done"
    /\ MadeAt(result, "rtd_noop_build")
    /\ Buckets(result) = {"LOCAL_KEY_UNCHANGED_HIT", "MISS"}

\* C5 (as claimed): a run that ends with exit status 0 on a revision list of
\* length L >= 2 has logged the banner of run_tests_for_diff once for each
\* index 1..L-1, in that order, and for no other index.
Banners ==
    SelectSeq(trace, LAMBDA e : e.op = "log" /\ e.msg = "=== Running tests at revision")
C5_EveryRevisionTested ==
    (pc = "done" /\ exit_code = 0 /\ Len(revisions_to_test) >= 2) =>
        /\ Len(Banners) = Len(revisions_to_test) - 1
        /\ \A k \in 1..Len(Banners) : Banners[k].index = k

\* C6: the baseline run_tests_for_diff works with is the result of the last
\* warm-up build (new side) for index 1 and the result of the no-op build of
\* index i-1 for an index i > 1; what run_tests_for_diff hands back to main
\* is the result of its own no-op build.
C6_BaselineThreading ==
    /\ InDriver =>
         IF i = 1
         THEN /\ MadeAt(results_for_new, "warmup_4")
              /\ trace[results_for_new.id].perftest_side = "new"
              /\ \A k \in Steps : k > results_for_new.id =>
                    ~(IsOp(k, "buck_build") /\ trace[k].at \in WarmupPcs)
         ELSE /\ MadeAt(results_for_new, "rtd_noop_build")
              /\ trace[results_for_new.id].index = i - 1
    /\ (pc = "main_loop" /\ i >= 1) =>
         /\ MadeAt(results_for_new, "rtd_noop_build")
         /\ trace[results_for_new.id].index = i

\* C6 witness: the check of index 2 is about to use the baseline, after the
\* run for index 1 has returned.
C6_Witness == pc = "rtd_check" /\ i = 2

\* C7: with iterations_per_diff = N >= 1 the loop makes N iterations, each a
\* clean build of the old side and then a clean build of the new side under
\* one cache mode: readonly in the iterations 0..N-2, readwrite in the last.
LoopSteps ==
    {j \in Steps : IsOp(j, "buck_build") /\ trace[j].at \in LoopBuildPcs
                   /\ trace[j].index = i}
C7_IterationLoop ==
    (InDriver /\ args.iterations_per_diff >= 1) =>
        /\ \A j \in LoopSteps :
              LET n == Cardinality({k \in LoopSteps : k <= j})
                  side == IF n % 2 = 1 THEN "old" ELSE "new"
                  mode == IF (n - 1) \div 2 = args.iterations_per_diff - 1
                          THEN "readwrite" ELSE "readonly"
              IN /\ n <= 2 * args.iterations_per_diff
                 /\ trace[j].perftest_side = side
                 /\ trace[j].buckconfig.dir_mode = mode
                 /\ IsOp(j - 1, "buck_clean") /\ trace[j - 1].ok
                 /\ IsOp(j - 2, "set_perftest_side")
                 /\ trace[j - 2].perftest_side = side
                 /\ trace[j - 2].cache_mode = mode
        /\ (pc \in {"rtd_noop_build", "rtd_noop_check"}
            \/ (pc = "rtd_finally" /\ exc = "none")) =>
              /\ Cardinality(LoopSteps) = 2 * args.iterations_per_diff
              /\ \A j \in LoopSteps : trace[j].exit = 0

\* C7 witness: a loop of two iterations is over.
C7_Witness == pc = "rtd_noop_build" /\ args.iterations_per_diff = 2

\* C8 (as claimed): no `buck clean` runs between the rename of the
\* repository and the build that follows it.
C8_NoCleanBeforeCheckBuild ==
    \A p \in Steps : IsBuildAt(p, "rtd_check_build") =>
        \A k \in Steps : (k < p /\ IsOp(k, "buck_clean")) =>
            \E r \in Steps : k < r /\ r < p /\ MovedAway(r)

\* C8 (amended): the build that follows the rename is a clean build of the
\* new side under cache mode readonly: between the rename and the build the
\* side is configured and `buck clean` runs, once.
C8_CheckBuildIsClean ==
    \A p \in Steps : IsBuildAt(p, "rtd_check_build") =>
        /\ p > 3
        /\ MovedAway(p - 3) /\ trace[p - 3].to = trace[p].index
        /\ IsOp(p - 2, "set_perftest_side")
        /\ trace[p - 2].perftest_side = "new"
        /\ trace[p - 2].cache_mode = "readonly"
        /\ IsOp(p - 1, "buck_clean") /\ trace[p - 1].ok
        /\ trace[p].perftest_side = "new"
        /\ trace[p].buckconfig.dir_mode = "readonly"

\* C8 witness: the build after the rename has returned.
C8_Witness == pc = "rtd_check"

\* C9: nothing is retried.  After a child process has failed or an error
\* has been raised, no build, clean or checkout runs; what may follow is the
\* report of the failed build, the raise itself, one call of the rename back
\* and the raise of that rename when it fails; the script then ends with a
\* non-zero exit status.
FailedProcess(j) ==
    \/ (trace[j].op \in {"hg_purge", "hg_log", "hg_update", "buck_clean", "rename"}
        /\ ~trace[j].ok)
    \/ (IsOp(j, "buck_build") /\ trace[j].exit # 0)
C9_NoRetries ==
    \A j \in Steps : (FailedProcess(j) \/ IsRaise(j)) =>
        /\ \A k \in Steps : k > j =>
              \/ TriedBack(k)
              \/ IsRaise(k) /\ (FailedProcess(j) \/ FailedProcess(k - 1))
              \/ (FailedProcess(j) /\ IsOp(k, "log")
                  /\ trace[k].msg = "Buck build failed")
        /\ Cardinality({k \in Steps : IsOp(k, "rename") /\ k > j}) <= 1
        /\ exc # "none"
        /\ pc \in {"rtd_finally", "done"}
        /\ pc = "done" => exit_code # 0

\* C9 witness: the script has ended after a build of the loop failed.
C9_Witness ==
    /\ pc = "done"
    /\ \E j \in Steps : IsBuildAt(j, "rtd_build_new") /\ trace[j].exit # 0

\* C10 (as claimed): when the check after the rename fails with a MISS
\* bucket, every rule of that bucket is logged with an old and a new rule
\* key before the error 'Failed to reuse cache across directories' is
\* raised, whatever the baseline holds.
C10_MissedRulesLogged ==
    (/\ MadeAt(result, "rtd_check_build")
     /\ pc # "rtd_check"
     /\ missed_rules(result) # <<>>) =>
        \E e \in Steps :
            /\ IsRaise(e)
            /\ trace[e].exc = "Exception: Failed to reuse cache across directories!!!"
            /\ \A m \in 1..Len(result.cache_results["MISS"]) :
                 LET rule == result.cache_results["MISS"][m].rule_name IN
                 /\ \E a \in 1..(e - 1) :
                       /\ IsOp(a, "log") /\ trace[a].msg = "Old Rule Key"
                       /\ trace[a].rule = rule
                 /\ \E b \in 1..(e - 1) :
                       /\ IsOp(b, "log") /\ trace[b].msg = "New Rule Key"
                       /\ trace[b].rule = rule
                       /\ trace[b].key = result.rule_key_map[rule][1]

\* ----------------------------------------------- claims about the sequence
IsBuild(j) == IsOp(j, "buck_build")
IsDriverBuild(j) == IsBuild(j) /\ trace[j].at \in TryPcs
IsWarmupBuild(j) == IsBuild(j) /\ trace[j].at \in WarmupPcs
CacheDirOf(side) == IF side = "old" THEN "buck-cache-old" ELSE "buck-cache-new"
VersionOf(side) ==
    IF side = "old" THEN "old_buck_revision" ELSE "new_buck_revision"
\* buck_build_target has returned its result for the build at j.
Returned(j) ==
    /\ IsBuild(j)
    /\ trace[j].exit = 0
    /\ j < Len(trace)
    /\ trace[j + 1] = LogLine("Test Build Finished!")
\* The step before the build at j that is not its clean: the last thing
\* done to the working directory's configuration before the build.
ConfiguredAt(j) == IF IsOp(j - 1, "buck_clean") THEN j - 2 ELSE j - 1
\* The cache directories the builds of one side have run with.
CacheDirsOf(side) ==
    {trace[j].buckconfig.dir :
        j \in {k \in Steps : IsBuild(k) /\ trace[k].perftest_side = side}}

\* C14: every build runs with the .buckconfig.local and .buckversion that
\* were written for its own call: the cache directory is that of its side,
\* the cache mode is that of its call, the pinned version is that of its
\* side, and builds of different sides never have the same cache directory.
C14_ConfigOfOwnSide ==
    /\ \A j \in Steps :
          IsBuild(j) =>
             /\ ConfiguredAt(j) >= 1
             /\ IsOp(ConfiguredAt(j), "set_perftest_side")
             /\ trace[ConfiguredAt(j)].at = trace[j].at
             /\ trace[ConfiguredAt(j)].perftest_side = trace[j].perftest_side
             /\ trace[j].buckconfig.dir_mode = trace[ConfiguredAt(j)].cache_mode
             /\ trace[j].buckconfig.dir = CacheDirOf(trace[j].perftest_side)
             /\ trace[j].buckversion = VersionOf(trace[j].perftest_side)
             /\ trace[j].at \in WarmupPcs =>
                   trace[j].buckconfig.dir_mode = "readwrite"
             /\ trace[j].at = "rtd_check_build" =>
                   trace[j].buckconfig.dir_mode = "readonly"
    /\ CacheDirsOf("old") \cap CacheDirsOf("new") = {}

\* C14 witness: an 'old' and a 'new' build of one loop iteration have run.
C14_Witness ==
    /\ pc = "rtd_loop"
    /\ xrange_next = 1
    /\ \E j \in Steps : IsBuildAt(j, "rtd_build_old")

WarmupOrder ==
    <<[at |-> "warmup_1", side |-> "old", mode_dir |-> FALSE],
      [at |-> "warmup_2", side |-> "old", mode_dir |-> TRUE],
      [at |-> "warmup_3", side |-> "new", mode_dir |-> FALSE],
      [at |-> "warmup_4", side |-> "new", mode_dir |-> TRUE]>>
WarmupBuilds ==
    SelectSeq(trace, LAMBDA e : e.op = "buck_build" /\ e.at \in WarmupPcs)
\* Where the last warm-up build has returned.
WarmAt == {k \in Steps : IsBuildAt(k, "warmup_4") /\ Returned(k)}

\* C15: main purges first, then lists the revisions, then checks out
\* revisions_to_test[0], then makes the four warm-up builds old/any cache,
\* old/dir cache only, new/any cache, new/dir cache only, each after a clean
\* and with cache mode readwrite; nothing of run_tests_for_diff happens
\* before the four warm-up builds have returned.
C15_MainOrder ==
    LET warm == WarmAt
        builds == WarmupBuilds
    IN
    /\ \A j \in Steps :
          /\ IsOp(j, "hg_purge") <=> j = 1
          /\ IsOp(j, "hg_log") => j = 2
          /\ (IsOp(j, "hg_update") /\ trace[j].at = "main_checkout") =>
                (j = 3 /\ IsOp(2, "hg_log") /\ trace[2].ok
                   /\ trace[j].revision = RevisionAt(0))
          /\ IsWarmupBuild(j) =>
                /\ j > 3 /\ IsOp(3, "hg_update") /\ trace[3].ok
                /\ IsOp(j - 1, "buck_clean") /\ trace[j - 1].ok
                /\ trace[j - 1].at = trace[j].at
                /\ IsOp(j - 2, "set_perftest_side")
                /\ trace[j - 2].at = trace[j].at
                /\ trace[j].at # "warmup_1" =>
                      (IsWarmupBuild(j - 4) /\ Returned(j - 4))
          /\ (IsOp(j, "rename") \/ IsDriverBuild(j)
                \/ (IsOp(j, "set_perftest_side") /\ trace[j].at \in TryPcs)
                \/ (IsOp(j, "hg_update") /\ trace[j].at = "rtd_checkout")) =>
                \E k \in warm : k < j
    /\ Len(builds) <= 4
    /\ \A n \in DOMAIN builds :
          /\ builds[n].at = WarmupOrder[n].at
          /\ builds[n].perftest_side = WarmupOrder[n].side
          /\ builds[n].buckconfig.mode_dir = WarmupOrder[n].mode_dir
          /\ builds[n].buckconfig.dir_mode = "readwrite"

\* C15 witness: the first step of run_tests_for_diff has been taken.
C15_Witness ==
    /\ pc = "rtd_check_build"
    /\ i = 1
    /\ Len(WarmupBuilds) = 4

DriverStepKind(e) ==
    CASE e.op = "rename" /\ e.to # 0 -> "relocate"
      [] e.op = "rename" /\ e.to = 0 -> "restore"
      [] e.op = "hg_update"           -> "checkout"
      [] OTHER                        -> e.at
\* What run_tests_for_diff did for index n, in order.
DriverSteps(n) ==
    LET mine == SelectSeq(trace, LAMBDA e :
                   \/ e.op = "rename" /\ e.index = n
                   \/ e.op = "buck_build" /\ e.at \in TryPcs /\ e.index = n
                   \/ e.op = "hg_update" /\ e.at = "rtd_checkout" /\ e.cwd = n)
    IN [k \in DOMAIN mine |-> DriverStepKind(mine[k])]
ExpectedSteps(n) ==
    <<"relocate", "rtd_check_build", "checkout">>
    \o [k \in 1..(2 * n) |-> IF k % 2 = 1 THEN "rtd_build_old"
                                          ELSE "rtd_build_new"]
    \o <<"rtd_noop_build", "restore">>
IsPrefix(s, t) == Len(s) <= Len(t) /\ \A k \in DOMAIN s : s[k] = t[k]

\* C16: as long as no error has been raised, what run_tests_for_diff has
\* done for an index is an initial part of: rename away, check build,
\* checkout, the loop builds old/new per iteration, no-op build, rename
\* back; the check build is made with the tree at the previous revision and
\* the builds after the checkout with the tree at the revision under test.
C16_DriverOrder ==
    /\ exc = "none" =>
          LET expected == ExpectedSteps(args.iterations_per_diff) IN
          \A n \in 1..MaxBack :
             LET done == DriverSteps(n) IN IsPrefix(done, expected)
    /\ pc \in {"rtd_check_build", "rtd_check", "rtd_checkout"} =>
          tree = RevisionAt(i - 1)
    /\ pc \in {"rtd_loop", "rtd_build_old", "rtd_build_new", "rtd_noop_build",
               "rtd_noop_check"} => tree = RevisionAt(i)

\* C16 witness: a run of run_tests_for_diff with two loop iterations has
\* returned without an error.
C16_Witness ==
    /\ pc = "main_loop"
    /\ i = 1
    /\ exc = "none"
    /\ args.iterations_per_diff = 2
    /\ DriverSteps(1) = ExpectedSteps(2)

\* C17: with at least one loop iteration, the no-op build is a build of the
\* new side made right after its reconfiguration, without a clean, with
\* cache mode readwrite; every other build after the checkout is made right
\* after a clean.
C17_NoopBuildCall ==
    args.iterations_per_diff >= 1 =>
       \A j \in Steps :
          /\ IsBuildAt(j, "rtd_noop_build") =>
                /\ trace[j].perftest_side = "new"
                /\ IsOp(j - 1, "set_perftest_side")
                /\ trace[j - 1].at = "rtd_noop_build"
                /\ trace[j - 1].cache_mode = "readwrite"
                /\ trace[j].buckconfig.dir_mode = "readwrite"
          /\ (IsBuild(j) /\ trace[j].at \in LoopBuildPcs) =>
                IsOp(j - 1, "buck_clean") /\ trace[j - 1].ok

\* C17 witness: the no-op build after two loop iterations has returned.
C17_Witness ==
    /\ pc = "rtd_noop_check"
    /\ args.iterations_per_diff = 2
    /\ \E j \in Steps : IsBuildAt(j, "rtd_noop_build") /\ Returned(j)

\* C18: buck_build_target injects the side label into the environment of a
\* build only when the build is telemetry-tagged.  The four warm-up builds
\* are not tagged: their environment has the label the script itself was
\* started with, nothing injected.  Every build of run_tests_for_diff (check
\* build, loop builds, no-op build) is tagged: its environment has the label
\* of the side it builds, whatever the script was started with.
\* BUCK_REPOSITORY_DIRTY is 0 in the environment of every build.
C18_TelemetryInjection ==
    \A j \in Steps :
       IsBuild(j) =>
          /\ trace[j].env.BUCK_REPOSITORY_DIRTY = "0"
          /\ trace[j].at \in WarmupPcs =>
                trace[j].env.perftest_side = environ.perftest_side
          /\ trace[j].at \in TryPcs =>
                /\ trace[j].perftest_side \in {"old", "new"}
                /\ trace[j].env.perftest_side = trace[j].perftest_side

\* C18 witness: in a script started with a label of its caller, the warm-up
\* builds of both sides were made and run_tests_for_diff has made a build of
\* the old side, whose label differs from the caller's.
C18_Witness ==
    /\ environ.perftest_side = "new"
    /\ \E j \in Steps : IsBuild(j) /\ trace[j].at \in WarmupPcs
                         /\ trace[j].perftest_side = "old"
    /\ \E j \in Steps : IsBuildAt(j, "rtd_build_old") /\ Returned(j)
                         /\ trace[j].env.perftest_side = "old"
    /\ \E j \in Steps : IsBuildAt(j, "rtd_check_build")
                         /\ trace[j].env.perftest_side = "new"

\* The renames that succeeded.
Renames == {k \in Steps : IsOp(k, "rename") /\ trace[k].ok}
\* Where the last of the given renames before step j moved the repository:
\* 0 when there is none or when it moved the repository back.
MovedTo(j, renames) ==
    LET before == {k \in renames : k < j}
    IN IF before = {} THEN 0
       ELSE trace[CHOOSE k \in before : \A m \in before : m <= k].to
HasPlace(j) == trace[j].op \in {"hg_purge", "hg_log", "hg_update",
                                "set_perftest_side", "buck_clean", "buck_build"}
InMain(j) ==
    \/ trace[j].op \in {"hg_purge", "hg_log"}
    \/ trace[j].op \in {"hg_update", "set_perftest_side", "buck_clean",
                        "buck_build"}
         /\ trace[j].at \in WarmupPcs \cup {"main_checkout"}

\* C19: the repository is at its own path or at the path of the index under
\* test; a rename away starts from the repository's own path and is made
\* while it is there; a rename back is made only after a rename away that
\* succeeded; main works at the repository's own path and
\* run_tests_for_diff under the path of its index.
C19_Relocation ==
    /\ root \in {0, i}
    /\ root # 0 => (pc \in TryPcs \cup {"rtd_finally"}
                    \/ (pc = "done" /\ exc = "OSError"))
    /\ LET renames == Renames IN
       \A j \in Steps :
          /\ (IsOp(j, "rename") /\ trace[j].to # 0) =>
                /\ trace[j].from = 0
                /\ trace[j].to = trace[j].index
                /\ MovedTo(j, renames) = 0
          /\ (IsOp(j, "rename") /\ trace[j].to = 0) =>
                /\ trace[j].from = trace[j].index
                /\ MovedTo(j, renames) = trace[j].index
          /\ (HasPlace(j) /\ InMain(j)) =>
                (trace[j].cwd = 0 /\ trace[j].root = 0 /\ MovedTo(j, renames) = 0)
          /\ (HasPlace(j) /\ ~InMain(j)) =>
                /\ trace[j].cwd # 0
                /\ trace[j].cwd = MovedTo(j, renames)
                /\ trace[j].root = trace[j].cwd
                /\ IsBuild(j) => trace[j].index = trace[j].cwd

\* C19 witness: the second run of run_tests_for_diff has checked out its
\* revision under the path of index 2.
C19_Witness ==
    /\ pc = "rtd_loop"
    /\ i = 2
    /\ root = 2

\* C20: with no loop iteration there is no loop build and no no-op build,
\* not even its reconfiguration; after the checkout the next thing is the
\* UnboundLocalError, then the call of the rename back, and then the script
\* ends with an error;
\* results_for_new never holds a result of run_tests_for_diff.
C20_NoIterations ==
    args.iterations_per_diff = 0 =>
       /\ \A j \in Steps :
             /\ trace[j].op \in {"set_perftest_side", "buck_clean",
                                 "buck_build"} =>
                   trace[j].at \in WarmupPcs \cup {"rtd_check_build"}
             /\ (IsOp(j, "hg_update") /\ trace[j].at = "rtd_checkout"
                   /\ trace[j].ok /\ j < Len(trace)) =>
                   /\ trace[j + 1] =
                         [op |-> "raise", exc |-> "UnboundLocalError"]
                   /\ j + 1 < Len(trace) =>
                         /\ TriedBack(j + 2)
                         /\ trace[j + 2].ok => Len(trace) = j + 2
       /\ results_for_new.id # 0 => IsBuildAt(results_for_new.id, "warmup_4")
       /\ (pc = "done" /\ \E j \in Steps : MovedAway(j)) =>
             (exc # "none" /\ \E k \in Steps : TriedBack(k))

\* C20 witness: the script has ended after a checkout in run_tests_for_diff
\* with no loop iteration asked for.
C20_Witness ==
    /\ args.iterations_per_diff = 0
    /\ pc = "done"
    /\ exc = "UnboundLocalError"
    /\ MovedBack(Len(trace))

\* ============================================== the parse on its own
\* The part of buck_build_target after the build tool has exited with
\* status 0, applied to the files of one build.  The files are drawn from
\* logs richer than those of the script's runs above: lines that match no
\* pattern, rule names that repeat, fingerprints described twice, and text
\* on the console while buck-0.log exists.
ParseKeys == {"a0", "a1"}
ParseTags == {"DIR_HIT", "MISS"}
OtherLine == [kind |-> "Other"]

BuildLogLines ==
    {FinishedLine(r, t, k) : r \in Rules, t \in ParseTags, k \in ParseKeys}
    \cup {OtherLine}
BuildLogs == UNION {[1..m -> BuildLogLines] : m \in 0..MaxLines}

Described == {<<"a0", "srcs=0">>, <<"a0", "srcs=1">>, <<"a1", "srcs=0">>}
JavaLogLines == {BuckLogRuleKeyLine(d[1], d[2]) : d \in Described}
ConsoleLines == {InfoRuleKeyLine(d[1], d[2]) : d \in Described}
JavaLogs ==
    {<<>>, <<InfoRuleKeyLine("a0", "srcs=1")>>}
    \cup {<<l>> : l \in JavaLogLines}
    \cup {<<l, m>> : l \in JavaLogLines, m \in JavaLogLines}
Consoles ==
    {<<>>, <<BuckLogRuleKeyLine("a0", "srcs=1")>>}
    \cup {<<l>> : l \in ConsoleLines}
    \cup {<<l, m>> : l \in ConsoleLines, m \in ConsoleLines}

\* The files of a build that exited 0, with or without buck-0.log.
ParserOutputs(exists) ==
    IF exists
    THEN {BuildOutput(0, TRUE, f, c, b) :
             f \in JavaLogs, c \in Consoles, b \in BuildLogs}
    ELSE {BuildOutput(0, FALSE, <<>>, c, b) : c \in Consoles, b \in BuildLogs}

\* The same files, and those of the builds that left no build.log.
ParserInputs(exists) ==
    ParserOutputs(exists)
    \cup {WithoutBuildLog(out) :
             out \in {o \in ParserOutputs(exists) : o.build_log = <<>>}}

ParseInit ==
    /\ \E exists \in BOOLEAN : build_output \in ParserInputs(exists)
    /\ args = [revisions_to_go_back |-> 1, iterations_per_diff |-> 0]
    /\ history = 0
    /\ pc = "parse"
    /\ step = "-"
    /\ revisions_to_test = <<>>
    /\ i = 0
    /\ results_for_new = NoResult
    /\ result = NoResult
    /\ cache_mode = "unset"
    /\ attempt = 0
    /\ root = 0
    /\ tree = 0
    /\ buckconfig = NoConfig
    /\ buckversion = ""
    /\ exc = "none"
    /\ trace = <<>>
    /\ environ = NoEnviron
    /\ xrange_next = 0

\* buck_build_target from `java_utils_log_path = ...` to `return result`
parse_build_output ==
    /\ pc = "parse"
    /\ pc' = "done"
    /\ LET parsed == ParseBuildLog(build_output) IN
         IF ~build_output.build_log_exists
         THEN /\ exc' = "IOError"
              /\ trace' = <<[op |-> "raise", exc |-> exc']>>
              /\ result' = result
         ELSE IF parsed.error
         THEN /\ exc' = "Exception: build.log entry not in output"
              /\ trace' = <<[op |-> "raise", exc |-> exc',
                             rule |-> parsed.rule, key |-> parsed.key]>>
              /\ result' = result
         ELSE /\ exc' = exc
              /\ trace' = <<LogLine("Test Build Finished!")>>
              /\ result' = BuildResult(1, parsed.cache_results,
                                       parsed.rule_key_map)
    /\ UNCHANGED <<build_output, environ, xrange_next, args, history, step, revisions_to_test, i,
                   results_for_new, cache_mode, attempt, root, tree,
                   buckconfig, buckversion>>

ParseNext == parse_build_output

ParseSpec == ParseInit /\ [][ParseNext]_vars

\* ------------------------------------------------- specification of reset
\* reset(revision, cwd) called on the repository by a caller that imports the
\* module: the working tree is at any revision of the history.
ResetInit ==
    /\ history \in 1..MaxHist
    /\ tree \in 1..history
    /\ pc = "reset"
    /\ args = [revisions_to_go_back |-> 1, iterations_per_diff |-> 0]
    /\ step = "-"
    /\ revisions_to_test = <<>>
    /\ i = 0
    /\ results_for_new = NoResult
    /\ result = NoResult
    /\ cache_mode = "unset"
    /\ attempt = 0
    /\ root = 0
    /\ buckconfig = NoConfig
    /\ buckversion = ""
    /\ exc = "none"
    /\ trace = <<>>
    /\ build_output = NoOutput
    /\ environ = NoEnviron
    /\ xrange_next = 0

\* reset(revision, cwd): one `hg revert -a -r revision` in cwd.  When hg exits 0
\* the files of the working tree are those of the revision and nothing is
\* returned or logged; when it does not (as for a revision the history does
\* not have), check_call raises CalledProcessError and the tree is as it was.
reset ==
    /\ pc = "reset"
    /\ pc' = "done"
    /\ \E revision \in 1..MaxHist, ok \in BOOLEAN :
         /\ ok => revision <= history
         /\ LET run == [op |-> "hg_revert", revision |-> revision,
                        cwd |-> 0, root |-> root, ok |-> ok]
            IN IF ok
               THEN /\ tree' = revision
                    /\ exc' = exc
                    /\ trace' = Append(trace, run)
               ELSE /\ tree' = tree
                    /\ exc' = "CalledProcessError"
                    /\ trace' = trace \o <<run, [op |-> "raise", exc |-> exc']>>
    /\ UNCHANGED <<build_output, environ, xrange_next, args, history, step,
                   revisions_to_test, i, results_for_new, result, cache_mode,
                   attempt, root, buckconfig, buckversion>>

ResetNext == reset

ResetSpec == ResetInit /\ [][ResetNext]_vars

\* Reading the files of the build under parse.
Finished ==
    SelectSeq(build_output.build_log, LAMBDA l : l.kind = "BuildRuleFinished")
SourceLines ==
    IF build_output.java_utils_log_exists
    THEN SelectSeq(build_output.java_utils_log,
                   LAMBDA l : l.kind = "BuckLogRuleKey")
    ELSE SelectSeq(build_output.tmpFile, LAMBDA l : l.kind = "InfoRuleKey")
SourceKeys == {SourceLines[j].rule_key : j \in DOMAIN SourceLines}
\* The description the chosen source gives a fingerprint last.
SourceDebug(k) ==
    LET at == {j \in DOMAIN SourceLines : SourceLines[j].rule_key = k}
        last == CHOOSE j \in at : \A m \in at : m <= j
    IN SourceLines[last].rule_key_debug
RecordOf(line) ==
    [rule_name |-> line.rule_name, rule_key |-> line.rule_key,
     rule_key_debug |-> SourceDebug(line.rule_key)]
Unknown == {j \in DOMAIN Finished : Finished[j].rule_key \notin SourceKeys}

\* C11: a completion line whose fingerprint has no description makes the
\* parse fail with an error that names the rule and the fingerprint of the
\* first such line, and no BuildResult comes out; when a BuildResult comes
\* out, every record in every bucket has a described fingerprint.
C11_UnknownFingerprintIsFatal ==
    pc = "done" =>
        IF Unknown # {}
        THEN /\ exc = "Exception: build.log entry not in output"
             /\ result = NoResult
             /\ LET first == CHOOSE j \in Unknown : \A m \in Unknown : j <= m
                IN /\ trace[1].op = "raise"
                   /\ trace[1].rule = Finished[first].rule_name
                   /\ trace[1].key = Finished[first].rule_key
        ELSE /\ exc = IF build_output.build_log_exists THEN "none"
                                                        ELSE "IOError"
             /\ result.id # 0 <=> exc = "none"
             /\ \A t \in Buckets(result) :
                  \A m \in DOMAIN result.cache_results[t] :
                     result.cache_results[t][m].rule_key \in SourceKeys

\* C11 witness: the parse has failed on the second of two completion lines,
\* the first of which had a described fingerprint.
C11_Witness ==
    /\ pc = "done"
    /\ Len(Finished) = 2
    /\ Unknown = {2}
    /\ exc # "none"

\* C12: when every completion line has a described fingerprint, the parse
\* yields one record per completion line, each in the bucket of its own tag
\* and in log order, and the rule-name map holds, for each rule name in the
\* log, the fingerprint and description of the last line with that name.
C12_OneRecordPerLine ==
    (pc = "done" /\ build_output.build_log_exists /\ Unknown = {}) =>
        /\ exc = "none"
        /\ Buckets(result) = {Finished[j].cache_result : j \in DOMAIN Finished}
        /\ \A t \in Buckets(result) :
              LET mine == SelectSeq(Finished, LAMBDA l : l.cache_result = t)
              IN result.cache_results[t] =
                    [m \in DOMAIN mine |-> RecordOf(mine[m])]
        /\ DOMAIN result.rule_key_map =
              {Finished[j].rule_name : j \in DOMAIN Finished}
        /\ \A r \in DOMAIN result.rule_key_map :
              LET at == {j \in DOMAIN Finished : Finished[j].rule_name = r}
                  last == CHOOSE j \in at : \A m \in at : m <= j
              IN result.rule_key_map[r] =
                    <<Finished[last].rule_key,
                      SourceDebug(Finished[last].rule_key)>>

\* C12 witness: a log of two completion lines for one rule name with two
\* fingerprints has been parsed.
C12_Witness ==
    /\ pc = "done"
    /\ exc = "none"
    /\ Len(Finished) = 2
    /\ Finished[1].rule_name = Finished[2].rule_name
    /\ Finished[1].rule_key # Finished[2].rule_key

\* C13: the descriptions of a build come from one source: from buck-0.log
\* alone when that file exists, whatever the console holds, and from the
\* console alone when it does not.
C13_OneDescriptionSource ==
    pc = "done" =>
        /\ exc = "none" =>
             \A t \in Buckets(result) :
                \A m \in DOMAIN result.cache_results[t] :
                   LET rec == result.cache_results[t][m]
                   IN /\ rec.rule_key \in SourceKeys
                      /\ rec.rule_key_debug = SourceDebug(rec.rule_key)
        /\ exc # "none" => (Unknown # {} \/ ~build_output.build_log_exists)

\* C13 witness: buck-0.log exists and describes a fingerprint otherwise than
\* the console does, and a record with that fingerprint has been parsed.
C13_Witness ==
    /\ pc = "done"
    /\ exc = "none"
    /\ build_output.java_utils_log_exists
    /\ build_output.java_utils_log = <<BuckLogRuleKeyLine("a0", "srcs=0")>>
    /\ build_output.tmpFile = <<InfoRuleKeyLine("a0", "srcs=1")>>
    /\ Len(Finished) = 1

====
